---- MODULE Spec2Model ----
(***************************************************************************)
(* Model of zipline/data/bundles/csvdir.py: the ingest function returned   *)
(* by csvdir_equities(tframe, start, end).                                 *)
(*                                                                         *)
(* Strings are sequences of one-character strings, so that endswith,       *)
(* split and sorted are computed character by character as Python does.    *)
(* Dates are day numbers; a price frame has one value column.              *)
(***************************************************************************)
EXTENDS Integers, Naturals, Sequences, FiniteSets, TLC

\* ------------------------------------------------------------------ bounds
\* Most files a directory listing holds.
MaxFiles == 2
\* Most rows one parsed CSV holds.
MaxRows == 2
\* Dates in the CSV files are the days 1..MaxDate.
MaxDate == 3

\* ----------------------------------------------------------------- strings
\* The suffix literal '.csv' of lines 60 and 78.
CSV == <<".", "c", "s", "v">>

\* Code points of the characters used, for Python's string ordering.
Ord(ch) ==
    CASE ch = "." -> 46
      [] ch = "A" -> 65
      [] ch = "B" -> 66
      [] ch = "c" -> 99
      [] ch = "s" -> 115
      [] ch = "v" -> 118
      [] ch = "x" -> 120

\* pat occurs in s at position i (1-based).
MatchAt(s, pat, i) ==
    /\ i >= 1
    /\ i + Len(pat) - 1 <= Len(s)
    /\ \A k \in 1..Len(pat) : s[i + k - 1] = pat[k]

\* str.endswith
EndsWith(s, suf) ==
    /\ Len(s) >= Len(suf)
    /\ MatchAt(s, suf, Len(s) - Len(suf) + 1)

\* str.split(sep)[0]: the text before the first occurrence of sep, the whole
\* string when sep does not occur.
SplitFirst(s, sep) ==
    LET hits == {i \in 1..Len(s) : MatchAt(s, sep, i)}
    IN  IF hits = {} THEN s
        ELSE LET first == CHOOSE i \in hits : \A j \in hits : i <= j
             IN  SubSeq(s, 1, first - 1)

\* Python's < on str: lexicographic by code point, a proper prefix is smaller.
StrLess(a, b) ==
    \E i \in 1..(Len(b)) :
        /\ \A k \in 1..(i - 1) : k <= Len(a) /\ a[k] = b[k]
        /\ \/ i = Len(a) + 1
           \/ i <= Len(a) /\ Ord(a[i]) < Ord(b[i])

StrLeq(a, b) == a = b \/ StrLess(a, b)

\* The symbol the generator expression of line 60 derives from one file name.
SymbolOf(item) == SplitFirst(item, CSV)

\* Insert x into an ascending sequence, after the elements equal to it.
InsertSorted(seq, x) ==
    LET n == Cardinality({i \in 1..Len(seq) : StrLeq(seq[i], x)})
    IN  SubSeq(seq, 1, n) \o <<x>> \o SubSeq(seq, n + 1, Len(seq))

\* sorted(item.split('.csv')[0] for item in listing if item.endswith('.csv')):
\* one element per matching file name, ascending; nothing removes duplicates.
RECURSIVE SortedSymbols(_)
SortedSymbols(listing) ==
    IF listing = {} THEN << >>
    ELSE LET item == CHOOSE f \in listing : TRUE
             rest == SortedSymbols(listing \ {item})
         IN  IF EndsWith(item, CSV) THEN InsertSorted(rest, SymbolOf(item))
             ELSE rest

\* File names a directory may hold.
FileNames ==
    { <<"A", ".", "c", "s", "v">>,
      <<"B", ".", "c", "s", "v">>,
      <<"A", ".", "c", "s", "v", ".", "c", "s", "v">>,
      <<"B", ".", "c", "s", "v", "x">> }

Listings == {l \in SUBSET FileNames : Cardinality(l) <= MaxFiles}

\* ------------------------------------------------------------------ frames
\* A missing cell (NaN) of a price column; prices themselves are not negative.
NaN == -1
\* The value of fillna(0.0), line 102.
FillValue == 0
\* The label of a row whose first column could not be converted to a date:
\* read_csv(parse_dates=[0]) returns such a column unaltered, as text.
TextLabel == 0

Cells == {NaN, 7}
RowSet == [date : 1..MaxDate, val : Cells]
RowSeqs == UNION {[1..n -> RowSet] : n \in 0..MaxRows}

\* What pandas.read_csv(path, parse_dates=[0], index_col=0) can do for one
\* file: raise (missing file, no columns, tokenizer error), or return a frame
\* in file order whose index holds dates, or whose index is left as text.
ReadOutcomes ==
    {[raised |-> TRUE, dates |-> TRUE, rows |-> << >>]}
      \cup {[raised |-> FALSE, dates |-> TRUE, rows |-> r] : r \in RowSeqs}
      \cup {[raised |-> FALSE, dates |-> FALSE,
             rows |-> <<[date |-> TextLabel, val |-> v]>>] : v \in Cells}

\* Insert a row into a frame ascending by label, after the rows of that label.
InsertRow(rows, r) ==
    LET n == Cardinality({i \in 1..Len(rows) : rows[i].date <= r.date})
    IN  SubSeq(rows, 1, n) \o <<r>> \o SubSeq(rows, n + 1, Len(rows))

\* DataFrame.sort_index(): rows ascending by index label.
RECURSIVE SortIndex(_)
SortIndex(rows) ==
    IF rows = << >> THEN << >>
    ELSE InsertRow(SortIndex(SubSeq(rows, 1, Len(rows) - 1)), rows[Len(rows)])

\* The index holds some label twice: reindex raises on such a frame.
HasDuplicates(rows) ==
    \E i, j \in 1..Len(rows) : i < j /\ rows[i].date = rows[j].date

\* Fault variant of AutoCloseDate: the day offset is left out.
AutoCloseSameDay(end_date) == end_date

\* end_date + pandas.Timedelta(days=1)
AutoCloseDate(end_date) == end_date + 1

\* A set of days as an ascending sequence.
RECURSIVE Ascending(_)
Ascending(S) ==
    IF S = {} THEN << >>
    ELSE LET m == CHOOSE x \in S : \A y \in S : y <= x
         IN  Append(Ascending(S \ {m}), m)

\* calendar.sessions_in_range(start_date, end_date): the sessions of the
\* calendar from start_date to end_date, both included, in order.
SessionsInRange(cal, start_date, end_date) ==
    Ascending({s \in cal : start_date <= s /\ s <= end_date})

\* df.reindex(sessions): one row per session, with the frame's cell where the
\* frame has that label and a missing cell where it has not.
Reindex(rows, sessions) ==
    [i \in 1..Len(sessions) |->
        [date |-> sessions[i],
         val  |-> IF \E k \in 1..Len(rows) : rows[k].date = sessions[i]
                  THEN rows[CHOOSE k \in 1..Len(rows) : rows[k].date = sessions[i]].val
                  ELSE NaN]]

\* Fault variant of FillNa: the missing cells are left as they are.
NoFill(rows, value) == rows

\* .fillna(value)
FillNa(rows, value) ==
    [i \in 1..Len(rows) |->
        [date |-> rows[i].date,
         val  |-> IF rows[i].val = NaN THEN value ELSE rows[i].val]]

\* The calendar ingest is given: every third day is not a session, so a
\* range of days can hold a session the file lacks and a day of the file can
\* be no session.
Calendars ==
    { {d \in 1..(MaxDate + 1) : d % 3 # 0} }

\* ---------------------------------------------------------------- metadata
\* Python's None in the object column 'symbol'.
NoneObj == <<"None">>

\* A row of numpy.empty(n, dtype=[...four fields...]): the dtype has an object
\* field, so numpy zero-fills the buffer: the dates are the epoch (day 0) and
\* the symbol is None.
EmptyRow == [start_date |-> 0, end_date |-> 0, auto_close_date |-> 0, symbol |-> NoneObj]

\* Fault variant of DropNa: the kept rows are relabelled 0, 1, ... as
\* dropna().reset_index(drop=True) would.
DropNaReset(table) ==
    LET keep == Ascending({s \in DOMAIN table : table[s].symbol # NoneObj})
    IN  [i \in 0..(Len(keep) - 1) |-> table[keep[i + 1]]]

\* metadata.dropna(): the rows without a missing cell, under their labels.
\* The datetime cells of this table are never NaT; the symbol may be None.
DropNa(table) ==
    LET keep == {s \in DOMAIN table : table[s].symbol # NoneObj}
    IN  [s \in keep |-> table[s]]

\* metadata['exchange'] = "CSVDIR"
WithExchange(table) ==
    [s \in DOMAIN table |->
        [start_date |-> table[s].start_date, end_date |-> table[s].end_date,
         auto_close_date |-> table[s].auto_close_date, symbol |-> table[s].symbol,
         exchange |-> "CSVDIR"]]

\* Fault variant of SelectWriter: every tframe but 'daily' selects the minute
\* writer.
SelectWriterUnlessDaily(tf) ==
    IF tf = "daily" THEN "daily_bar_writer" ELSE "minute_bar_writer"

\* writer = minute_bar_writer if tframe == 'minute' else daily_bar_writer
SelectWriter(tf) ==
    IF tf = "minute" THEN "minute_bar_writer" ELSE "daily_bar_writer"

\* ------------------------------------------------------------------- state
VARIABLES
    environ,        \* os.environ.get('CSVDIR'): "unset", "empty", "notdir", "dir"
    listing,        \* os.listdir(csvdir): the file names in the directory
    tframe,         \* the closure's tframe
    show_progress,  \* ingest's show_progress argument
    calendar,       \* ingest's calendar argument: its set of sessions
    pc,             \* where ingest is
    exit_status,    \* the status of sys.exit, -1 while the process runs
    listed,         \* os.listdir has been called
    logged,         \* the messages given to logger.error
    symbols,        \* the sorted symbols list
    metadata,       \* the metadata table, a row per sid
    gen,            \* the generator _pricing_iter(): "none", "created",
                    \* "running", "suspended", "exhausted", "raised"
    sid,            \* the next index enumerate() gives
    cur,            \* the pair the bar writer received last and still holds
    received,       \* the sids the bar writer received, in order
    pulls,          \* how many elements the bar writer has asked for
    outcome,        \* per sid, what reading its file gave
    calls,          \* the writers' write calls, in order
    equities        \* the table given to asset_db_writer.write

vars == <<environ, listing, tframe, show_progress, calendar, pc, exit_status,
          listed, logged, symbols, metadata, gen, sid, cur, received, pulls,
          outcome, calls, equities>>

NoPair == [sid |-> -1, df |-> << >>, raw |-> << >>]

Init ==
    /\ environ \in {"unset", "empty", "notdir", "dir"}
    /\ listing \in IF environ = "dir" THEN Listings ELSE {{}}
    /\ tframe \in {"minute", "daily", "hourly"}
    /\ show_progress \in BOOLEAN
    /\ calendar \in Calendars
    /\ pc = "start"
    /\ exit_status = -1
    /\ listed = FALSE
    /\ logged = {}
    /\ symbols = << >>
    /\ metadata = << >>
    /\ gen = "none"
    /\ sid = 0
    /\ cur = NoPair
    /\ received = << >>
    /\ pulls = 0
    /\ outcome = << >>
    /\ calls = << >>
    /\ equities = << >>

\* Line 53, `not csvdir`: the variable is unset (None) or empty.
NotSet(env) == env \in {"unset", "empty"}

\* Fault variant of IsDir: the directory check is left out.
IsDirUnchecked(env) == TRUE

\* Line 56, os.path.isdir(csvdir).
IsDir(env) == env = "dir"

\* Lines 52-58: without a source directory the process exits with status 1.
CheckEnv ==
    /\ pc = "start"
    /\ IF NotSet(environ)
       THEN /\ logged' = logged \cup {"CSVDIR environment variable is not set"}
            /\ exit_status' = 1
            /\ pc' = "exited"
       ELSE IF ~IsDir(environ)
       THEN /\ logged' = logged \cup {"is not a directory"}
            /\ exit_status' = 1
            /\ pc' = "exited"
       ELSE /\ pc' = "discover"
            /\ UNCHANGED <<logged, exit_status>>
    /\ UNCHANGED <<environ, listing, tframe, show_progress, calendar, listed,
                   symbols, metadata, gen, sid, cur, received, pulls, outcome,
                   calls, equities>>

\* Fault variant of AfterDiscovery: an empty symbols list ends the run.
ExitWhenEmpty(syms) == IF syms = << >> THEN "exited" ELSE "dispatch"

\* Lines 62-63: an empty symbols list is logged and ingest goes on.
AfterDiscovery(syms) == "dispatch"

\* Lines 60-69: the symbols list and the preallocated metadata table.
Discover ==
    /\ pc = "discover"
    /\ listed' = TRUE
    /\ symbols' = SortedSymbols(listing)
    /\ logged' = IF symbols' = << >>
                 THEN logged \cup {"no <symbol>.csv files found"}
                 ELSE logged
    /\ metadata' = [s \in 0..(Len(symbols') - 1) |-> EmptyRow]
    /\ outcome' = [s \in 0..(Len(symbols') - 1) |-> "unread"]
    /\ pc' = AfterDiscovery(symbols')
    /\ UNCHANGED <<environ, listing, tframe, show_progress, calendar,
                   exit_status, gen, sid, cur, received, pulls, calls, equities>>

\* Lines 106-107: the call of the selected writer's write with the generator.
Dispatch ==
    /\ pc = "dispatch"
    /\ calls' = Append(calls, [fn |-> SelectWriter(tframe), data |-> "_pricing_iter()",
                               show_progress |-> show_progress])
    /\ gen' = "created"
    /\ pc' = "writing"
    /\ UNCHANGED <<environ, listing, tframe, show_progress, calendar,
                   exit_status, listed, logged, symbols, metadata, sid, cur,
                   received, pulls, outcome, equities>>

\* Fault variant of GenRunnable: the loop goes on after a yield without
\* waiting for the writer, as a function building the whole list would.
EagerRunnable(g) == g \in {"running", "suspended"}

\* The generator body runs only between a next() of the writer and the
\* following yield, return or exception.
GenRunnable(g) == g = "running"

\* The bar writer asks for the next pair and lets go of the one it holds.
WriterNext ==
    /\ pc = "writing"
    /\ gen \in {"created", "suspended"}
    /\ gen' = "running"
    /\ cur' = NoPair
    /\ pulls' = pulls + 1
    /\ UNCHANGED <<environ, listing, tframe, show_progress, calendar, pc,
                   exit_status, listed, logged, symbols, metadata, sid,
                   received, outcome, calls, equities>>

\* Lines 74-104: one turn of the loop, for the symbol at index sid.
\* maybe_show_progress hands the loop the symbols as they are, in order.
GenStep ==
    /\ pc = "writing"
    /\ GenRunnable(gen)
    /\ sid < Len(symbols)
    /\ \E c \in ReadOutcomes :
         LET df == SortIndex(c.rows)
             start_date == df[1].date
             end_date == df[Len(df)].date
             ac_date == AutoCloseDate(end_date)
             row == [start_date |-> start_date, end_date |-> end_date,
                     auto_close_date |-> ac_date, symbol |-> symbols[sid + 1]]
             sessions == SessionsInRange(calendar, start_date, end_date)
         IN
         IF c.raised
         THEN \* lines 80-82
              /\ logged' = logged \cup {"unable to parse"}
              /\ outcome' = [outcome EXCEPT ![sid] = "raise"]
              /\ sid' = sid + 1
              /\ UNCHANGED <<metadata, gen, cur, received, pc>>
         ELSE IF Len(df) = 0
         THEN \* lines 85-86
              /\ outcome' = [outcome EXCEPT ![sid] = "empty"]
              /\ sid' = sid + 1
              /\ UNCHANGED <<logged, metadata, gen, cur, received, pc>>
         ELSE IF ~c.dates
         THEN \* line 94: adding a Timedelta to text raises TypeError,
              \* outside the try block
              /\ outcome' = [outcome EXCEPT ![sid] = "text"]
              /\ gen' = "raised"
              /\ pc' = "raised"
              /\ UNCHANGED <<logged, metadata, sid, cur, received>>
         ELSE IF HasDuplicates(df)
         THEN \* line 95 records the row, then reindex (line 99) raises
              /\ outcome' = [outcome EXCEPT ![sid] = "duplicates"]
              /\ metadata' = [metadata EXCEPT ![sid] = row]
              /\ gen' = "raised"
              /\ pc' = "raised"
              /\ UNCHANGED <<logged, sid, cur, received>>
         ELSE \* lines 90-104
              /\ outcome' = [outcome EXCEPT ![sid] = "frame"]
              /\ metadata' = [metadata EXCEPT ![sid] = row]
              /\ cur' = [sid |-> sid, raw |-> df,
                         df |-> FillNa(Reindex(df, sessions), FillValue)]
              /\ received' = Append(received, sid)
              /\ gen' = "suspended"
              /\ sid' = sid + 1
              /\ UNCHANGED <<logged, pc>>
    /\ UNCHANGED <<environ, listing, tframe, show_progress, calendar,
                   exit_status, listed, symbols, pulls, calls, equities>>

\* Line 74: the loop is over, the generator returns.
GenStop ==
    /\ pc = "writing"
    /\ GenRunnable(gen)
    /\ sid >= Len(symbols)
    /\ gen' = "exhausted"
    /\ UNCHANGED <<environ, listing, tframe, show_progress, calendar, pc,
                   exit_status, listed, logged, symbols, metadata, sid, cur,
                   received, pulls, outcome, calls, equities>>

\* Line 107 returns: the writer has seen the end of the sequence, or has
\* stopped asking.
WriterReturn ==
    /\ pc = "writing"
    /\ gen \in {"created", "suspended", "exhausted"}
    /\ pc' = "finalize"
    /\ cur' = NoPair
    /\ UNCHANGED <<environ, listing, tframe, show_progress, calendar,
                   exit_status, listed, logged, symbols, metadata, gen, sid,
                   received, pulls, outcome, calls, equities>>

\* Lines 110-118, and the return of ingest.
Finalize ==
    /\ pc = "finalize"
    /\ equities' = WithExchange(DropNa(metadata))
    /\ calls' = calls \o
         << [fn |-> "asset_db_writer", data |-> "equities", show_progress |-> FALSE],
            [fn |-> "adjustment_writer", data |-> "None, None", show_progress |-> FALSE] >>
    /\ pc' = "done"
    /\ UNCHANGED <<environ, listing, tframe, show_progress, calendar,
                   exit_status, listed, logged, symbols, metadata, gen, sid,
                   cur, received, pulls, outcome>>

Next ==
    \/ CheckEnv
    \/ Discover
    \/ Dispatch
    \/ WriterNext
    \/ GenStep
    \/ GenStop
    \/ WriterReturn
    \/ Finalize

Spec == Init /\ [][Next]_vars

\* ------------------------------------------------------------------ claims
\* The bar writer holds the pair the generator yielded last.
AtEmission == pc = "writing" /\ gen = "suspended"
Range(seq) == {seq[i] : i \in 1..Len(seq)}
Dates(rows) == {rows[i].date : i \in 1..Len(rows)}
MinOf(S) == CHOOSE x \in S : \A y \in S : x <= y
MaxOf(S) == CHOOSE x \in S : \A y \in S : y <= x
Populated == {s \in DOMAIN metadata : metadata[s].symbol # NoneObj}
BarWriters == {"minute_bar_writer", "daily_bar_writer"}
BarCalls == {i \in 1..Len(calls) : calls[i].fn \in BarWriters}
\* A file name without its last four characters.
StripSuffix(item) == SubSeq(item, 1, Len(item) - Len(CSV))
Matching == {f \in listing : EndsWith(f, CSV)}

\* C1: the table handed to asset_db_writer.write holds exactly one row per
\* symbol whose file was read into a non-empty frame, none for a skipped
\* symbol, and no two rows carry the same symbol.
C1_OneRowPerParsedSymbol ==
    pc = "done" =>
        /\ DOMAIN equities = {s \in DOMAIN outcome : outcome[s] = "frame"}
        /\ \A s \in DOMAIN equities : equities[s].symbol = symbols[s + 1]
        /\ \A s, t \in DOMAIN equities :
             s # t => equities[s].symbol # equities[t].symbol

\* C2: the frame emitted for a symbol has as its index exactly the calendar's
\* sessions from the first to the last date of the raw frame, in order; a cell
\* of a session the raw frame lacks, or that was missing in the source, is
\* 0.0, and every other cell is the raw frame's.
C2_AlignedToSessions ==
    AtEmission =>
        LET raw == cur.raw
            df == cur.df
            S == {d \in calendar : MinOf(Dates(raw)) <= d /\ d <= MaxOf(Dates(raw))}
        IN  /\ Len(raw) > 0
            /\ Len(df) = Cardinality(S)
            /\ Dates(df) = S
            /\ \A i, j \in 1..Len(df) : i < j => df[i].date < df[j].date
            /\ \A i \in 1..Len(df) :
                 IF \E k \in 1..Len(raw) :
                        raw[k].date = df[i].date /\ raw[k].val # NaN
                 THEN \E k \in 1..Len(raw) :
                        raw[k].date = df[i].date /\ raw[k].val = df[i].val
                 ELSE df[i].val = 0

\* C2 witness: a pair whose frame has a session the raw frame lacks, filled
\* with 0.0, and whose raw frame has a day that is no session.
C2_Witness ==
    /\ AtEmission
    /\ \E i \in 1..Len(cur.df) :
         cur.df[i].date \notin Dates(cur.raw) /\ cur.df[i].val = 0
    /\ \E k \in 1..Len(cur.raw) : cur.raw[k].date \notin Dates(cur.df)
    /\ \E i \in 1..Len(cur.df) : cur.df[i].val = 7

\* C3: a symbol whose file cannot be read, or whose first column cannot be
\* parsed as dates, never makes an exception leave ingest, and gets no
\* metadata row and no pair.
C3_BadSymbolNeverFatal ==
    \A s \in DOMAIN outcome :
        outcome[s] \in {"raise", "text"} =>
            /\ ~(pc = "raised" /\ sid = s)
            /\ metadata[s].symbol = NoneObj
            /\ s \notin Range(received)

\* C4: with CSVDIR unset, empty or no directory, the process exits with a
\* non-zero status, and no writer is called and no file listed or parsed.
C4_ExitBeforeAnyWork ==
    environ # "dir" =>
        /\ calls = << >>
        /\ ~listed
        /\ gen = "none"
        /\ pulls = 0
        /\ pc \in {"start", "exited"}
        /\ pc = "exited" => exit_status > 0

\* C4 witness: the process has exited because CSVDIR names no directory.
C4_Witness == environ = "notdir" /\ pc = "exited" /\ exit_status = 1

\* C5: the symbols list is sorted and without duplicates, its elements are
\* the matching file names with the suffix stripped, and enumeration is a
\* bijection between 0..n-1 and the distinct symbol names.
C5_SortedDistinctBijection ==
    listed =>
        /\ \A i, j \in 1..Len(symbols) : i < j => StrLess(symbols[i], symbols[j])
        /\ Range(symbols) = {StripSuffix(f) : f \in Matching}
        /\ Len(symbols) = Cardinality(Range(symbols))

\* C6: every recorded metadata row has auto_close_date = end_date + 1 day,
\* with start_date the least and end_date the greatest date of the raw frame.
C6_AutoCloseNextDay ==
    /\ \A s \in Populated :
         /\ metadata[s].auto_close_date = metadata[s].end_date + 1
         /\ metadata[s].start_date <= metadata[s].end_date
    /\ \A s \in DOMAIN equities :
         equities[s].auto_close_date = equities[s].end_date + 1
    /\ AtEmission =>
         /\ metadata[cur.sid].start_date = MinOf(Dates(cur.raw))
         /\ metadata[cur.sid].end_date = MaxOf(Dates(cur.raw))

\* C6 witness: a recorded row whose auto-close date is no session, from a
\* raw frame of two rows.
C6_Witness ==
    /\ AtEmission
    /\ Len(cur.raw) = 2
    /\ metadata[cur.sid].auto_close_date \notin calendar
    /\ metadata[cur.sid].auto_close_date = metadata[cur.sid].end_date + 1

\* C7: past the directory checks and the dispatch, exactly one bar writer's
\* write has been called, once: the minute writer iff tframe is 'minute',
\* with the generator and the show_progress flag.
C7_OneBarWriter ==
    /\ pc \in {"start", "exited", "discover", "dispatch"} => BarCalls = {}
    /\ pc \in {"writing", "finalize", "done", "raised"} =>
         /\ BarCalls = {1}
         /\ calls[1].fn = "minute_bar_writer" <=> tframe = "minute"
         /\ calls[1].data = "_pricing_iter()"
         /\ calls[1].show_progress = show_progress

\* C7 witness: ingest is done with a tframe that is neither 'minute' nor
\* 'daily', and the daily writer was the one called.
C7_Witness ==
    /\ pc = "done"
    /\ tframe = "hourly"
    /\ show_progress
    /\ calls[1].fn = "daily_bar_writer"

\* C8: a symbol's file is parsed and its row recorded only after the writer
\* asked for the element after the previous pair: there are never more pairs
\* than requests, nothing beyond the last pair is read while the writer holds
\* it, and the emitted sids increase strictly.
C8_LazyInSidOrder ==
    /\ Len(received) <= pulls
    /\ gen \in {"none", "created"} =>
         \A s \in DOMAIN outcome : outcome[s] = "unread"
    /\ AtEmission =>
         /\ cur.sid = received[Len(received)]
         /\ \A s \in DOMAIN outcome :
              s > cur.sid => outcome[s] = "unread" /\ metadata[s] = EmptyRow
    /\ \A i, j \in 1..Len(received) : i < j => received[i] < received[j]

\* C8 witness: the writer holds the first pair while a later symbol is still
\* unread.
C8_Witness ==
    /\ AtEmission
    /\ Len(received) = 1
    /\ \E s \in DOMAIN outcome : s > cur.sid /\ outcome[s] = "unread"

\* C9: with a valid directory and no matching file, ingest logs an error,
\* calls the selected bar writer (no pair), asset_db_writer (no row) and
\* adjustment_writer, each once in that order, and returns.
C9_EmptyDirectoryStillWrites ==
    (listed /\ symbols = << >>) =>
        /\ "no <symbol>.csv files found" \in logged
        /\ pc \in {"dispatch", "writing", "finalize", "done"}
        /\ received = << >>
        /\ pc = "done" \/ ENABLED Next
        /\ pc = "done" =>
             /\ Len(calls) = 3
             /\ calls[1].fn = SelectWriter(tframe)
             /\ calls[2].fn = "asset_db_writer"
             /\ calls[3].fn = "adjustment_writer"
             /\ DOMAIN equities = {}

\* C9 witness: ingest returned from a directory with one file that is not a
\* .csv file.
C9_Witness ==
    /\ pc = "done"
    /\ listing # {}
    /\ symbols = << >>
    /\ Len(calls) = 3

\* C10: when the writer consumed the whole sequence, the sids it received are
\* the row labels of the final table, each row carries the symbol at its sid
\* in the symbols list, skipped symbols leave gaps, and at every emission the
\* populated rows are exactly the sids emitted so far.
C10_BarsMatchMetadata ==
    /\ (pc = "done" /\ gen = "exhausted") =>
         /\ DOMAIN equities = Range(received)
         /\ \A s \in DOMAIN equities : equities[s].symbol = symbols[s + 1]
         /\ \A s \in DOMAIN outcome :
              outcome[s] \in {"raise", "empty"} <=> s \notin Range(received)
    /\ AtEmission =>
         /\ Populated = Range(received)
         /\ metadata[cur.sid].symbol = symbols[cur.sid + 1]

\* C10 witness: the first symbol was skipped and the second emitted under
\* sid 1, and the final table has the one row 1.
C10_Witness ==
    /\ pc = "done"
    /\ gen = "exhausted"
    /\ received = <<1>>
    /\ DOMAIN equities = {1}
    /\ outcome[0] = "empty"
====
